---- MODULE Spec2Model ----
(***************************************************************************)
(* Comment anchoring in the da-live editor: the comment plugin             *)
(* (commentPlugin.js), the comment helpers (comment-utils.js) and the      *)
(* comments panel (da-comments.js).                                        *)
(*                                                                         *)
(* The document is the ProseMirror token sequence: position p lies between *)
(* token p and token p+1, a paragraph is an "open" token, its inline       *)
(* content and a "close" token; every token has size 1.  A text token      *)
(* carries at most one comment mark (tid), an image token carries a mark   *)
(* (tid) and the commentThreadId attribute (attr).                         *)
(***************************************************************************)
EXTENDS Integers, Sequences, FiniteSets, TLC

VARIABLES doc, schema, ymap, attached, initialSyncComplete, synced,
          timer, sinceChange, emitted, last, edits, storedMarks

vars == <<doc, schema, ymap, attached, initialSyncComplete, synced,
          timer, sinceChange, emitted, last, edits, storedMarks>>

-----------------------------------------------------------------------------
(* Bounds of the model *)

MaxDocLen == 5

MaxEdits == 3


(* Program constants *)

SYNC_STABILITY_DELAY_MS == 500

STABILITY_SLACK_MS == 50

POSITION_CONTEXT_RADIUS == 30

CONTEXT_TAIL == 10

-----------------------------------------------------------------------------
(* Values *)

None == "none"

NullId == "null"

Threads == {"t1", "t2"}

Chars == {"a", "b"}

ImageLabel == <<"[Image]">>

OpenTok == [k |-> "open", ch |-> "", tid |-> None, attr |-> None]

CloseTok == [k |-> "close", ch |-> "", tid |-> None, attr |-> None]

TextTok(c, t) == [k |-> "text", ch |-> c, tid |-> t, attr |-> None]

ImageTok(t, a) == [k |-> "image", ch |-> "", tid |-> t, attr |-> a]

IsInline(tok) == tok.k \in {"text", "image"}

Min(S) == CHOOSE x \in S : \A y \in S : x <= y

Max(S) == CHOOSE x \in S : \A y \in S : x >= y

-----------------------------------------------------------------------------
(* JavaScript string operations on sequences of characters *)

Slice(s, a, b) ==
  LET lo == Min({Max({a, 0}), Len(s)})
      hi == Min({Max({b, 0}), Len(s)})
  IN  IF lo >= hi THEN <<>> ELSE SubSeq(s, lo + 1, hi)

SliceLast(s, n) == Slice(s, Len(s) - n, Len(s))

Includes(s, sub) ==
  \E i \in 0..(Len(s) - Len(sub)) : SubSeq(s, i + 1, i + Len(sub)) = sub

Whitespace == {" "}

(* !text || /^[\s\u00A0]*$/.test(text) *)
isOnlyWhitespace(s) == \A i \in 1..Len(s) : s[i] \in Whitespace

-----------------------------------------------------------------------------
(* Document queries *)

(* the one value of a singleton set: binds a computed value to a name *)
Only(S) == CHOOSE x \in S : TRUE

IsText(tok) == tok.k = "text"

TextContent(d) ==
  Only({[i \in 1..Len(texts) |-> texts[i].ch] : texts \in {SelectSeq(d, IsText)}})

(* the text node of token i: the maximal run of text tokens around i with   *)
(* the same marks                                                           *)
SameNode(d, i, j) ==
  \A x \in i..j : d[x].k = "text" /\ d[x].tid = d[i].tid

NodeFirst(d, i) == Min({j \in 1..i : SameNode(d, j, i)})

NodeLast(d, i) == Max({j \in i..Len(d) : SameNode(d, i, j)})

(* p is a position inside a paragraph *)
IsInlinePos(d, p) == p >= 1 /\ p <= Len(d) - 1 /\ d[p].k # "close"

WellFormed(d) ==
  /\ Len(d) >= 2
  /\ d[1].k = "open"
  /\ d[Len(d)].k = "close"
  /\ \A i \in 1..(Len(d) - 1) :
       /\ d[i].k = "close" => d[i + 1].k = "open"
       /\ d[i + 1].k = "open" => d[i].k = "close"

(* number of block nodes that start before position p *)
BlocksBefore(d, p) == Cardinality({i \in 1..Len(d) : d[i].k = "open" /\ i - 1 < p})

(* doc.textBetween(from, to, sep, ''): the paragraph that contains from is   *)
(* the first block visited, every later paragraph is preceded by sep (one    *)
(* character or none)                                                        *)
NonEmpty(s) == s # <<>>

TextBetween(d, from, to, sep) ==
  LET startsInside == from >= 1 /\ from <= Len(d) /\ d[from].k # "close"
      separated(i) == /\ d[i].k = "open"
                      /\ (startsInside \/ \E j \in (from + 1)..(i - 1) : d[j].k = "open")
      piece(i) == IF d[i].k = "text" THEN <<d[i].ch>>
                  ELSE IF separated(i) THEN sep
                  ELSE <<>>
  IN  Only({[i \in 1..Len(pieces) |-> pieces[i][1]] :
              pieces \in {SelectSeq([i \in 1..Max({0, Min({to, Len(d)}) - from}) |->
                                       piece(from + i)], NonEmpty)}})

getThreadIdsWithMarks(d, sch) ==
  IF sch = "nomark" THEN {}
  ELSE {d[i].tid : i \in {j \in 1..Len(d) : d[j].tid # None}}
         \cup {d[i].attr : i \in {j \in 1..Len(d) : d[j].k = "image" /\ d[j].attr # None}}

-----------------------------------------------------------------------------
(* comment-utils.js *)

NullCtx == [isNull |-> TRUE, textBefore |-> <<>>, textAfter |-> <<>>, blockIndex |-> 0]

getPositionContext(d, from, to) ==
  Only({[isNull |-> FALSE,
         textBefore |-> SliceLast(textBefore, POSITION_CONTEXT_RADIUS),
         textAfter |-> Slice(textAfter, 0, POSITION_CONTEXT_RADIUS),
         blockIndex |-> BlocksBefore(d, from)] :
          textBefore \in {Slice(TextContent(d), Max({0, from - POSITION_CONTEXT_RADIUS}), from)},
          textAfter \in {Slice(TextContent(d), to,
                                Min({Len(TextContent(d)), to + POSITION_CONTEXT_RADIUS}))}})

NoMatch == [from |-> -1, to |-> -1]

(* start positions of the occurrences of selectedText inside one text node;  *)
(* the search resumes at idx + 1, so occurrences may overlap                 *)
MatchStarts(d, selectedText) ==
  LET n == Len(selectedText)
  IN  {p \in 0..(Len(d) - n) :
         /\ SameNode(d, p + 1, p + n)
         /\ \A j \in 1..n : d[p + j].ch = selectedText[j]}

MatchScore(docText, d, p, n, ctx) ==
  LET tb == ctx.textBefore
      ta == ctx.textAfter
      actualBefore == Slice(docText, Max({0, p - Len(tb)}), p)
      actualAfter == Slice(docText, p + n, p + n + Len(ta))
      sBefore == IF tb = <<>> THEN 0
                 ELSE IF actualBefore = tb THEN 50
                 ELSE IF Includes(actualBefore, SliceLast(tb, CONTEXT_TAIL)) THEN 20
                 ELSE 0
      sAfter == IF ta = <<>> THEN 0
                ELSE IF actualAfter = ta THEN 50
                ELSE IF Includes(actualAfter, Slice(ta, 0, CONTEXT_TAIL)) THEN 20
                ELSE 0
      diff == BlocksBefore(d, p) - ctx.blockIndex
      blockDiff == IF diff < 0 THEN 0 - diff ELSE diff
      sBlock == IF "blockIndex" \notin DOMAIN ctx THEN 0
                ELSE IF blockDiff = 0 THEN 30 ELSE IF blockDiff <= 2 THEN 15 ELSE 0
  IN  sBefore + sAfter + sBlock

(* the first of the best-scoring occurrences *)
bestMatch(starts, score) ==
  CHOOSE p \in starts :
    /\ \A q \in starts : score[q] <= score[p]
    /\ \A q \in starts : score[q] = score[p] => p <= q

findBestMatchPosition_needsContext(d, selectedText, ctx) ==
  IF ctx.isNull \/ MatchStarts(d, selectedText) = {} THEN NoMatch
  ELSE [from |-> Min(MatchStarts(d, selectedText)),
        to |-> Min(MatchStarts(d, selectedText)) + Len(selectedText)]

findBestMatchPosition(d, selectedText, ctx) ==
  Only({IF n = 0 \/ starts = {} THEN NoMatch
        ELSE IF Cardinality(starts) = 1 \/ ctx.isNull
             THEN [from |-> Min(starts), to |-> Min(starts) + n]
        ELSE Only({[from |-> best, to |-> best + n] :
                     best \in {bestMatch(starts,
                                 Only({[p \in starts |-> MatchScore(docText, d, p, n, ctx)] :
                                         docText \in {TextContent(d)}}))}}) :
          n \in {Len(selectedText)}, starts \in {MatchStarts(d, selectedText)}})

-----------------------------------------------------------------------------
(* commentPlugin.js: mark store *)

NoRange == [from |-> -1, to |-> -1, isImage |-> FALSE]

(* the first node in document order that is an image with the thread's       *)
(* attribute or a text node with the thread's mark; for text the range ends  *)
(* at the end of the last text node of the document that carries the mark    *)
findCommentMarkRange(d, sch, threadId) ==
  LET hits == {i \in 1..Len(d) :
                 \/ d[i].k = "image" /\ d[i].attr = threadId
                 \/ d[i].k = "text" /\ d[i].tid = threadId}
      first == Min(hits)
      lastText == Max({i \in first..Len(d) : d[i].k = "text" /\ d[i].tid = threadId})
  IN  IF sch = "nomark" \/ hits = {} THEN NoRange
      ELSE IF d[first].k = "image"
           THEN [from |-> first - 1, to |-> first, isImage |-> TRUE]
      ELSE [from |-> NodeFirst(d, first) - 1, to |-> lastText, isImage |-> FALSE]

(* tr.addMark(from, to, comment{threadId}): every inline node in the range   *)
(* gets the mark; a comment mark replaces the comment mark already there     *)
AddMark(d, from, to, threadId) ==
  [i \in 1..Len(d) |->
     IF i > from /\ i <= to /\ IsInline(d[i]) THEN [d[i] EXCEPT !.tid = threadId] ELSE d[i]]

(* removeCommentMark's transaction: the mark leaves every text node that     *)
(* carries it and every image with the attribute gets commentThreadId null   *)
RemoveThread(d, threadId) ==
  [i \in 1..Len(d) |->
     IF d[i].k = "text" /\ d[i].tid = threadId THEN [d[i] EXCEPT !.tid = None]
     ELSE IF d[i].k = "image" /\ d[i].attr = threadId THEN [d[i] EXCEPT !.attr = None]
     ELSE d[i]]

-----------------------------------------------------------------------------
(* The comment store (the shared Y.Map): comment id -> comment record *)

EmptyMap == [x \in {} |-> 0]

Merge(r, upd) ==
  [x \in (DOMAIN r) \cup (DOMAIN upd) |-> IF x \in DOMAIN upd THEN upd[x] ELSE r[x]]

MapSet(map, id, rec) ==
  [x \in (DOMAIN map) \cup {id} |-> IF x = id THEN rec ELSE map[x]]

MapDelete(map, id) == [x \in (DOMAIN map) \ {id} |-> map[x]]

IsOrphaned(r) == "orphaned" \in DOMAIN r /\ r.orphaned

IsResolved(r) == r.resolved

(* groupCommentsByThread: the thread ids that have at least one record *)
ThreadIdsOf(map) == {map[id].threadId : id \in DOMAIN map}

(* groupCommentsByThread: the records of one thread *)
groupCommentsByThread(map, t) == {id \in DOMAIN map : map[id].threadId = t}

RootIds(map, t) == {id \in DOMAIN map : map[id].threadId = t /\ map[id].parentId = NullId}

HasRoot(map, t) == RootIds(map, t) # {}

findRootCommentEntry(map, t) == CHOOSE id \in RootIds(map, t) : TRUE

RootOf(map, t) == map[findRootCommentEntry(map, t)]

-----------------------------------------------------------------------------
(* commentPlugin.js: lifecycle pass (buildDecorations) *)

restoreOrphanedComments_never(map, live, att, gate) == map

restoreOrphanedComments(map, live, att, gate) ==
  LET restoredIds == {t \in ThreadIdsOf(map) :
                        HasRoot(map, t) /\ IsOrphaned(RootOf(map, t)) /\ t \in live}
  IN  IF ~att \/ ~gate THEN map
      ELSE [id \in DOMAIN map |->
              IF map[id].threadId \in restoredIds /\ map[id].parentId = NullId
              THEN Merge(map[id], [orphaned |-> FALSE, orphanedAt |-> "null"])
              ELSE map[id]]

newlyOrphanedIds_repeating(threads, live, att, gate) ==
  IF ~att \/ ~gate THEN {}
  ELSE {t \in ThreadIdsOf(threads) :
          /\ t \notin live
          /\ ~(HasRoot(threads, t) /\ IsResolved(RootOf(threads, t)))}

newlyOrphanedIds_ignoringResolved(threads, live, att, gate) ==
  IF ~att \/ ~gate THEN {}
  ELSE {t \in ThreadIdsOf(threads) :
          /\ t \notin live
          /\ ~(HasRoot(threads, t) /\ IsOrphaned(RootOf(threads, t)))}

newlyOrphanedIds_ungated(threads, live, att, gate) ==
  IF ~att THEN {}
  ELSE {t \in ThreadIdsOf(threads) :
          /\ t \notin live
          /\ ~(HasRoot(threads, t) /\ IsResolved(RootOf(threads, t)))
          /\ ~(HasRoot(threads, t) /\ IsOrphaned(RootOf(threads, t)))}

(* threads is the grouping taken before restoreOrphanedComments wrote *)
newlyOrphanedIds(threads, live, att, gate) ==
  IF ~att \/ ~gate THEN {}
  ELSE {t \in ThreadIdsOf(threads) :
          /\ t \notin live
          /\ ~(HasRoot(threads, t) /\ IsResolved(RootOf(threads, t)))
          /\ ~(HasRoot(threads, t) /\ IsOrphaned(RootOf(threads, t)))}

markOrphanedComments_deleting(map, ids) ==
  [id \in {x \in DOMAIN map : ~(map[x].threadId \in ids /\ map[x].parentId = NullId)} |-> map[id]]

markOrphanedComments(map, ids) ==
  [id \in DOMAIN map |->
     IF map[id].threadId \in ids /\ map[id].parentId = NullId
     THEN Merge(map[id], [orphaned |-> TRUE, orphanedAt |-> "ts"])
     ELSE map[id]]

(* the root record of a live thread after the refresh of its anchored text *)
refreshedRoot_stale(d, rec, range) == rec

refreshedRoot(d, rec, range) ==
  IF range = NoRange THEN rec
  ELSE Only({IF rec.selectedText = currentText THEN rec
             ELSE IF range.isImage THEN Merge(rec, [selectedText |-> ImageLabel])
             ELSE Merge(rec, [selectedText |-> currentText,
                              positionContext |-> getPositionContext(d, range.from, range.to)]) :
               currentText \in {IF range.isImage THEN ImageLabel
                                ELSE TextBetween(d, range.from, range.to, <<"\n">>)}})

updateCommentSelectedText(d, sch, map, live, att) ==
  IF ~att \/ sch = "nomark" THEN map
  ELSE [id \in DOMAIN map |->
          IF map[id].parentId = NullId /\ map[id].threadId \in live
          THEN Only({refreshedRoot(d, map[id], range) :
                       range \in {findCommentMarkRange(d, sch, map[id].threadId)}})
          ELSE map[id]]

(* one run of buildDecorations on document d: the store afterwards and the   *)
(* da-comments-orphaned batches it dispatched (none or one)                  *)
buildDecorations(d, sch, map, att, gate) ==
  Only({Only({Only({[map |-> updateCommentSelectedText(d, sch, orphaned, live, att),
                     batches |-> IF ids = {} THEN <<>> ELSE <<ids>>] :
                      orphaned \in {markOrphanedComments(restored, ids)}}) :
                restored \in {restoreOrphanedComments(map, live, att, gate)},
                ids \in {newlyOrphanedIds(map, live, att, gate)}}) :
          live \in {getThreadIdsWithMarks(d, sch)}})

-----------------------------------------------------------------------------
(* commentPlugin.js: transactional mark maintainer *)

(* ResolvedPos.marks() at position pos, reduced to the comment mark *)
MarksAt(d, pos, sch) ==
  LET before == IF IsInline(d[pos]) THEN d[pos].tid ELSE None
      hasBefore == IsInline(d[pos])
      hasAfter == IsInline(d[pos + 1])
      after == IF hasAfter THEN d[pos + 1].tid ELSE None
      inText == hasBefore /\ hasAfter /\ SameNode(d, pos, pos + 1)
      main == IF hasBefore THEN before ELSE after
      otherHas == hasBefore /\ hasAfter /\ after = main
  IN  IF pos < 1 \/ pos >= Len(d) \/ d[pos].k = "close" THEN None
      ELSE IF ~hasBefore /\ ~hasAfter THEN None
      ELSE IF inText THEN before
      ELSE IF sch = "noninclusive" /\ ~otherHas THEN None
      ELSE main

validThreadIds(map, att) == IF att THEN ThreadIdsOf(map) ELSE {}

markToApply_none(oldDoc, rng, valid, sch) == None

(* the mark the maintainer extends over the range a step inserted *)
markToApply(oldDoc, rng, valid, sch) ==
  LET s == rng.oldStart
      e == rng.oldEnd
      prev == IF s > 0 /\ oldDoc[s].k = "text" /\ oldDoc[s].tid \in valid
              THEN oldDoc[s].tid ELSE None
      next == IF e < Len(oldDoc) /\ oldDoc[e + 1].k = "text" /\ oldDoc[e + 1].tid \in valid
              THEN oldDoc[e + 1].tid ELSE None
      atPos == IF s > 0 /\ MarksAt(oldDoc, s, sch) \in valid
               THEN MarksAt(oldDoc, s, sch) ELSE None
  IN  IF prev # None THEN prev ELSE IF next # None THEN next ELSE atPos

stripGhostMarks_keeping(d, valid) == d

stripGhostMarks_first(d, valid) ==
  [i \in 1..Len(d) |->
     IF d[i].tid # None /\ d[i].tid \notin valid
        /\ \A j \in 1..(i - 1) : d[j].tid = None \/ d[j].tid \in valid
     THEN [d[i] EXCEPT !.tid = None] ELSE d[i]]

stripGhostMarks(d, valid) ==
  [i \in 1..Len(d) |->
     IF d[i].tid # None /\ d[i].tid \notin valid THEN [d[i] EXCEPT !.tid = None] ELSE d[i]]

RECURSIVE propagate(_, _, _, _, _, _)
propagate(d, oldDoc, ranges, i, valid, sch) ==
  IF i > Len(ranges) THEN d
  ELSE Only({propagate(d2, oldDoc, ranges, i + 1, valid, sch) :
               d2 \in {Only({IF ranges[i].newEnd > ranges[i].newStart /\ m # None
                             THEN AddMark(d, ranges[i].newStart, ranges[i].newEnd, m)
                             ELSE d :
                               m \in {markToApply(oldDoc, ranges[i], valid, sch)}})}})

(* the document after the corrective transaction; newDoc itself when the     *)
(* maintainer returns null or a transaction without steps                    *)
maintainCommentMarks(tr, oldDoc, newDoc, sch, map, att) ==
  IF ~tr.docChanged \/ sch = "nomark" THEN newDoc
  ELSE Only({Only({IF tr.paste THEN stripped
                   ELSE propagate(stripped, oldDoc, tr.ranges, 1, valid, sch) :
                     stripped \in {stripGhostMarks(newDoc, valid)}}) :
               valid \in {validThreadIds(map, att)}})

(* view.dispatch(tr): plugin state apply (lifecycle pass), appendTransaction *)
(* (maintainer) and, when it yields steps, the pass on the corrected state   *)
Dispatch(tr, oldDoc, newDoc, sch, map, att, gate) ==
  Only({Only({IF fixed = newDoc
              THEN [doc |-> newDoc, mid |-> newDoc, map |-> pass1.map,
                    batches |-> pass1.batches]
              ELSE Only({[doc |-> fixed, mid |-> newDoc, map |-> pass2.map,
                          batches |-> pass1.batches \o pass2.batches] :
                           pass2 \in {buildDecorations(fixed, sch, pass1.map, att, gate)}}) :
                fixed \in {maintainCommentMarks(tr, oldDoc, newDoc, sch, pass1.map, att)}}) :
          pass1 \in {buildDecorations(newDoc, sch, map, att, gate)}})

MetaTr == [docChanged |-> FALSE, paste |-> FALSE, ranges |-> <<>>]

MarkTr == [docChanged |-> TRUE, paste |-> FALSE, ranges |-> <<>>]

-----------------------------------------------------------------------------
(* Inputs *)

Para(cells) == <<OpenTok>> \o cells \o <<CloseTok>>

InitDocs ==
  { Para(<<TextTok("a", None), TextTok("a", None)>>),
    Para(<<TextTok("a", None), ImageTok(None, None)>>) }

Schemas == {"inclusive", "noninclusive", "nomark"}

MarkIds(sch) == IF sch = "nomark" THEN {None} ELSE {None, "t1"}

(* content a transaction may insert: nothing, or one inline node *)
TypedSlices(sch) ==
  {<<>>} \cup {<<TextTok(c, t)>> : c \in {"a"}, t \in MarkIds(sch)}

(* clipboard content before transformPasted *)
PastedSlices(sch) ==
  LET t == IF sch = "nomark" THEN None ELSE "t1"
  IN  {<<TextTok("a", t)>>, <<ImageTok(t, None)>>, <<ImageTok(t, "t1")>>}

Replace(d, from, to, slice) == SubSeq(d, 1, from) \o slice \o SubSeq(d, to + 1, Len(d))

ReplaceTr(from, to, n, paste) ==
  [docChanged |-> TRUE, paste |-> paste,
   ranges |-> <<[oldStart |-> from, oldEnd |-> to, newStart |-> from, newEnd |-> from + n]>>]

Info(kind, from, to, n, t) ==
  [kind |-> kind, oldStart |-> from, oldEnd |-> to, newEnd |-> from + n, tid |-> t]

(* view.state.storedMarks is kept as the thread of the comment mark among    *)
(* the stored marks, None when there is none.                                *)
(* The stored marks a deletion typed into the editor leaves: the marks of    *)
(* the deleted content at from, a non-inclusive mark only when the content   *)
(* behind to carries it as well                                              *)
marksAcross(d, from, to, sch) ==
  IF sch = "nomark" \/ ~IsInline(d[from + 1]) THEN None
  ELSE IF sch = "noninclusive" /\ ~(IsInline(d[to + 1]) /\ d[to + 1].tid = d[from + 1].tid)
       THEN None
  ELSE d[from + 1].tid

(* the stored marks after a handler: a dispatched transaction with steps     *)
(* drops them, a meta-only transaction keeps them                            *)
afterDispatch == storedMarks' = IF doc' # doc THEN None ELSE storedMarks

(* markOrphanedComments: from inside the pass it dispatches a transaction    *)
(* that cleans the stored marks when they hold the comment mark of a thread  *)
(* it has just flagged                                                       *)
storedMarksDispatch(stored, newlyOrphaned, sch) ==
  sch # "nomark" /\ stored # None /\ stored \in newlyOrphaned

(* view.update: a document change before the gate opened resets the timer *)
resetSyncStabilityTimer ==
  IF ~initialSyncComplete
  THEN timer' = -1 /\ sinceChange' = 0
  ELSE UNCHANGED <<timer, sinceChange>>

-----------------------------------------------------------------------------
(* State machine *)

Init ==
  /\ doc \in InitDocs
  /\ schema \in Schemas
  /\ ymap = EmptyMap
  /\ attached = FALSE
  /\ initialSyncComplete = FALSE
  /\ synced = FALSE
  /\ timer = -1
  /\ sinceChange = SYNC_STABILITY_DELAY_MS
  /\ emitted = <<>>
  /\ last = Info("init", 0, 0, 0, None)
  /\ edits = 0
  /\ storedMarks = None

(* da-comments updated(): the panel hands the shared map to the plugin *)
setCommentsMap ==
  /\ ~attached
  /\ attached' = TRUE
  /\ initialSyncComplete' = FALSE
  /\ emitted' = <<>>
  /\ last' = Info("attach", 0, 0, 0, None)
  /\ UNCHANGED <<doc, schema, ymap, synced, timer, sinceChange, edits, storedMarks>>

(* setWsProvider: the provider reports synced *)
setWsProvider ==
  /\ ~synced
  /\ synced' = TRUE
  /\ sinceChange' = 0
  /\ timer' = SYNC_STABILITY_DELAY_MS
  /\ emitted' = <<>>
  /\ last' = Info("synced", 0, 0, 0, None)
  /\ UNCHANGED <<doc, schema, ymap, attached, initialSyncComplete, edits, storedMarks>>

(* a local or remote transaction with one replace step *)
DocTr(from, to, slice) ==
  /\ edits < MaxEdits
  /\ from <= to
  /\ IsInlinePos(doc, from) /\ IsInlinePos(doc, to)
  /\ ~(from = to /\ slice = <<>>)
  /\ Len(doc) - (to - from) + Len(slice) <= MaxDocLen
  /\ \E st \in {Dispatch(ReplaceTr(from, to, Len(slice), FALSE), doc,
                          Replace(doc, from, to, slice), schema, ymap,
                          attached, initialSyncComplete)} :
       /\ doc' = st.doc
       /\ ymap' = st.map
       /\ emitted' = st.batches
  /\ last' = Info("edit", from, to, Len(slice), IF slice # <<>> THEN slice[1].tid ELSE None)
  /\ edits' = edits + 1
  /\ resetSyncStabilityTimer
  /\ \E typed \in BOOLEAN :
       storedMarks' = IF typed /\ slice = <<>> /\ doc' = Replace(doc, from, to, slice)
                      THEN marksAcross(doc, from, to, schema)
                      ELSE None
  /\ UNCHANGED <<schema, attached, initialSyncComplete, synced>>

(* transformPasted *)
stripCommentMarksFromFragment(slice, sch) ==
  [i \in 1..Len(slice) |->
     IF slice[i].k = "text"
     THEN (IF sch = "nomark" THEN slice[i] ELSE [slice[i] EXCEPT !.tid = None])
     ELSE IF slice[i].k = "image" /\ slice[i].attr # None
          THEN ImageTok(None, None)
     ELSE slice[i]]

(* a paste: transformPasted, then the transaction with the paste meta *)
Paste(from, to, clip) ==
  /\ edits < MaxEdits
  /\ from = to
  /\ IsInlinePos(doc, from) /\ IsInlinePos(doc, to)
  /\ Len(doc) - (to - from) + Len(clip) <= MaxDocLen
  /\ \E slice \in {stripCommentMarksFromFragment(clip, schema)} :
     \E st \in {Dispatch(ReplaceTr(from, to, Len(slice), TRUE), doc,
                          Replace(doc, from, to, slice), schema, ymap,
                          attached, initialSyncComplete)} :
       /\ doc' = st.doc
       /\ ymap' = st.map
       /\ emitted' = st.batches
  /\ last' = Info("paste", from, to, Len(clip), clip[1].tid)
  /\ edits' = edits + 1
  /\ resetSyncStabilityTimer
  /\ storedMarks' = None
  /\ UNCHANGED <<schema, attached, initialSyncComplete, synced>>

(* a transaction that changes only the selection or carries plugin meta *)
MetaPass(st) ==
  Only({[doc |-> st.doc, map |-> r.map, batches |-> st.batches \o r.batches] :
          r \in {buildDecorations(st.doc, schema, st.map, attached, initialSyncComplete)}})

(* a pass that writes nothing and emits nothing leaves the state as it is    *)
SelectionTr ==
  /\ \E st \in {MetaPass([doc |-> doc, map |-> ymap, batches |-> <<>>])} :
       /\ ~(st.map = ymap /\ st.batches = <<>> /\ storedMarks = None)
       /\ ymap' = st.map
       /\ emitted' = st.batches
  /\ last' = Info("select", 0, 0, 0, None)
  /\ storedMarks' = None
  /\ UNCHANGED <<doc, schema, attached, initialSyncComplete, synced, timer,
                 sinceChange, edits>>

Orders(S) ==
  {o \in [1..Cardinality(S) -> S] : \A i, j \in 1..Cardinality(S) : o[i] = o[j] => i = j}

RECURSIVE recoverMarks(_, _, _, _, _, _)
recoverMarks(acc, d, order, i, map, live) ==
  IF i > Len(order) THEN acc
  ELSE IF order[i] \in live \/ ~HasRoot(map, order[i])
       THEN recoverMarks(acc, d, order, i + 1, map, live)
  ELSE Only({Only({recoverMarks(next, d, order, i + 1, map, live) :
                     next \in {IF \/ IsResolved(root)
                                  \/ isOnlyWhitespace(root.selectedText)
                                  \/ match = NoMatch
                               THEN acc
                               ELSE AddMark(acc, match.from, match.to, order[i])}}) :
               root \in {RootOf(map, order[i])},
               match \in {findBestMatchPosition(d, RootOf(map, order[i]).selectedText,
                                                RootOf(map, order[i]).positionContext)}})

(* the document of the transaction recoverMissingMarks dispatches; d itself  *)
(* when it dispatches nothing                                                *)
recoverMissingMarks(d, sch, map, att, order) ==
  IF ~att \/ sch = "nomark" THEN d
  ELSE recoverMarks(d, d, order, 1, map, getThreadIdsWithMarks(d, sch))

(* the stability timeout fires after its delay: checkStability, onSyncStable *)
checkStability ==
  LET timeSinceLastChange == sinceChange + timer
  IN
  /\ timer > 0
  /\ IF timeSinceLastChange >= SYNC_STABILITY_DELAY_MS
     THEN /\ timer' = -1
          /\ sinceChange' = SYNC_STABILITY_DELAY_MS
          /\ initialSyncComplete' = TRUE
          /\ \E order \in Orders(ThreadIdsOf(ymap)) :
               \E recDoc \in {recoverMissingMarks(doc, schema, ymap, attached, order)} :
                 IF initialSyncComplete \/ recDoc = doc
                 THEN /\ UNCHANGED <<doc, ymap>>
                      /\ emitted' = <<>>
                      /\ last' = Info("stable", 0, 0, 0, None)
                 ELSE /\ \E st \in {Dispatch(MarkTr, doc, recDoc, schema, ymap,
                                              attached, TRUE)} :
                           /\ doc' = st.doc
                           /\ ymap' = st.map
                           /\ emitted' = st.batches
                      /\ last' = Info("recover", 0, 0, 0, None)
     ELSE /\ timer' = SYNC_STABILITY_DELAY_MS - timeSinceLastChange + STABILITY_SLACK_MS
          /\ sinceChange' = timeSinceLastChange
          /\ emitted' = <<>>
          /\ last' = Info("rearm", 0, 0, 0, None)
          /\ UNCHANGED <<doc, ymap, initialSyncComplete>>
  /\ afterDispatch
  /\ UNCHANGED <<schema, attached, synced, edits>>

UsedIds(d) ==
  {d[i].tid : i \in 1..Len(d)} \cup {d[i].attr : i \in 1..Len(d)}

(* a new thread id is a fresh uuid; unused ids are interchangeable, so the   *)
(* first unused one is taken                                                 *)
FreshThreads ==
  LET unused == {t \in Threads : t \notin ThreadIdsOf(ymap) /\ t \notin UsedIds(doc)}
  IN  IF "t1" \in unused THEN {"t1"} ELSE unused

NewComment(t, selectedText, isImage, ctx) ==
  [id |-> t, threadId |-> t, parentId |-> NullId, content |-> "c", createdAt |-> 1,
   resolved |-> FALSE, selectedText |-> selectedText, isImage |-> isImage,
   positionContext |-> ctx]

(* applyCommentMark(threadId, {selectedText, positionContext}) for a text    *)
(* selection: the document of the dispatched transaction, d when it fails    *)
applyCommentMark(d, sch, t, selectedText, ctx) ==
  Only({IF sch = "nomark" \/ match = NoMatch THEN d
        ELSE AddMark(d, match.from, match.to, t) :
          match \in {findBestMatchPosition(d, selectedText, ctx)}})

(* startAddComment on the text selection from..to, then submitNewComment *)
(* two plugin-meta transactions in a row: setActiveThread with               *)
(* setPendingCommentRange or clearPendingCommentRange                        *)
metaDispatches(st) == Only({MetaPass(opened) : opened \in {MetaPass(st)}})

(* the record is stored, then the mark is applied; when that fails the       *)
(* record is deleted again                                                   *)
storeAndMark(s0, t, stored, newDoc) ==
  IF newDoc = doc
  THEN MetaPass([doc |-> doc, map |-> MapDelete(stored, t), batches |-> s0.batches])
  ELSE Only({metaDispatches([doc |-> r.doc, map |-> r.map, batches |-> s0.batches \o r.batches]) :
               r \in {Dispatch(MarkTr, doc, newDoc, schema, stored, attached,
                               initialSyncComplete)}})

submitNewComment(t, from, to) ==
  /\ attached
  /\ edits < MaxEdits
  /\ t \in FreshThreads
  /\ from < to
  /\ IsInlinePos(doc, from) /\ IsInlinePos(doc, to)
  /\ \E selectedText \in {TextBetween(doc, from, to, <<>>)},
        ctx \in {getPositionContext(doc, from, to)},
        s0 \in {metaDispatches([doc |-> doc, map |-> ymap, batches |-> <<>>])} :
       /\ ~isOnlyWhitespace(selectedText)
       /\ \E newDoc \in {applyCommentMark(doc, schema, t, selectedText, ctx)} :
            /\ \E st \in {storeAndMark(s0, t, MapSet(s0.map, t,
                                 NewComment(t, selectedText, FALSE, ctx)), newDoc)} :
                 /\ doc' = st.doc
                 /\ ymap' = st.map
                 /\ emitted' = st.batches
            /\ last' = Info(IF newDoc = doc THEN "submitFailed" ELSE "submit", from, to, 0, t)
            /\ IF newDoc = doc THEN UNCHANGED <<timer, sinceChange>>
               ELSE resetSyncStabilityTimer
  /\ edits' = edits + 1
  /\ afterDispatch
  /\ UNCHANGED <<schema, attached, initialSyncComplete, synced>>

(* startAddComment on the selected image at pos, then submitNewComment:      *)
(* applyCommentToImage replaces the image node by one with the attribute     *)
submitImageComment(t, pos) ==
  /\ attached
  /\ edits < MaxEdits
  /\ t \in FreshThreads
  /\ pos + 1 <= Len(doc)
  /\ doc[pos + 1].k = "image"
  /\ \E s0 \in {metaDispatches([doc |-> doc, map |-> ymap, batches |-> <<>>])} :
     \E r \in {Dispatch(ReplaceTr(pos, pos + 1, 1, FALSE), doc,
                         [doc EXCEPT ![pos + 1].attr = t], schema,
                         MapSet(s0.map, t, NewComment(t, ImageLabel, TRUE, NullCtx)),
                         attached, initialSyncComplete)} :
     \E st \in {metaDispatches([doc |-> r.doc, map |-> r.map,
                           batches |-> s0.batches \o r.batches])} :
       /\ doc' = st.doc
       /\ ymap' = st.map
       /\ emitted' = st.batches
  /\ last' = Info("submitImage", pos, pos + 1, 1, t)
  /\ edits' = edits + 1
  /\ resetSyncStabilityTimer
  /\ storedMarks' = None
  /\ UNCHANGED <<schema, attached, initialSyncComplete, synced>>

(* getRootComment: the root record, else the oldest record of the thread *)
getRootComment(map, t) ==
  IF HasRoot(map, t) THEN findRootCommentEntry(map, t)
  ELSE CHOOSE id \in groupCommentsByThread(map, t) :
         \A other \in groupCommentsByThread(map, t) : map[id].createdAt <= map[other].createdAt

HasMarkOf(d, t) ==
  \E i \in 1..Len(d) : (d[i].k = "text" /\ d[i].tid = t) \/ (d[i].k = "image" /\ d[i].attr = t)

(* the replace steps of removeCommentMark, one per image with the attribute *)
ImageRanges(d, t) ==
  LET idx == {i \in 1..Len(d) : d[i].k = "image" /\ d[i].attr = t}
      nth(k) == CHOOSE i \in idx : Cardinality({j \in idx : j < i}) = k - 1
  IN  [k \in 1..Cardinality(idx) |->
         [oldStart |-> nth(k) - 1, oldEnd |-> nth(k), newStart |-> nth(k) - 1, newEnd |-> nth(k)]]

(* removeCommentMark(t) applied to state st *)
removeCommentMark(st, t) ==
  IF schema = "nomark" \/ ~HasMarkOf(st.doc, t) THEN st
  ELSE Only({[doc |-> r.doc, map |-> r.map, batches |-> st.batches \o r.batches] :
               r \in {Dispatch([docChanged |-> TRUE, paste |-> FALSE,
                                ranges |-> ImageRanges(st.doc, t)],
                               st.doc, RemoveThread(st.doc, t), schema, st.map,
                               attached, initialSyncComplete)}})

resolveThread(t) ==
  /\ attached
  /\ edits < MaxEdits
  /\ t \in ThreadIdsOf(ymap)
  /\ \E rid \in {getRootComment(ymap, t)} :
       /\ ~IsResolved(ymap[rid])
       /\ \E removed \in {removeCommentMark(
                             [doc |-> doc,
                              map |-> MapSet(ymap, rid, Merge(ymap[rid], [resolved |-> TRUE])),
                              batches |-> <<>>], t)} :
            /\ \E st \in {MetaPass(removed)} :
                 /\ doc' = st.doc
                 /\ ymap' = st.map
                 /\ emitted' = st.batches
            /\ IF removed.doc # doc THEN resetSyncStabilityTimer
               ELSE UNCHANGED <<timer, sinceChange>>
  /\ last' = Info("resolve", 0, 0, 0, t)
  /\ edits' = edits + 1
  /\ afterDispatch
  /\ UNCHANGED <<schema, attached, initialSyncComplete, synced>>

(* the store after commentsMap.delete of every record of thread t *)
deleteRecords(map, t) == [id \in {x \in DOMAIN map : map[x].threadId # t} |-> map[id]]

(* deleteThread(t), confirmDeleteThread and deleteComment on a root without  *)
(* replies: removeCommentMark, then the records are deleted, then            *)
(* setActiveThread(null) from the panel's observer and from the handler      *)
deleteThread(t) ==
  /\ attached
  /\ edits < MaxEdits
  /\ t \in ThreadIdsOf(ymap)
  /\ \E removed \in {removeCommentMark([doc |-> doc, map |-> ymap, batches |-> <<>>], t)} :
       /\ \E st \in {metaDispatches([doc |-> removed.doc,
                                     map |-> deleteRecords(removed.map, t),
                                     batches |-> removed.batches])} :
            /\ doc' = st.doc
            /\ ymap' = st.map
            /\ emitted' = st.batches
       /\ IF removed.doc # doc THEN resetSyncStabilityTimer
          ELSE UNCHANGED <<timer, sinceChange>>
  /\ last' = Info("deleteThread", 0, 0, 0, t)
  /\ edits' = edits + 1
  /\ afterDispatch
  /\ UNCHANGED <<schema, attached, initialSyncComplete, synced>>

unresolveMatch_anywhere(rootComment) == [from |-> 1, to |-> 2]

(* the position the mark of a resolved thread is re-applied at *)
unresolveMatch(rootComment) ==
  IF "selectedText" \in DOMAIN rootComment /\ rootComment.selectedText # <<>>
  THEN findBestMatchPosition(doc, rootComment.selectedText, rootComment.positionContext)
  ELSE NoMatch

unresolveThread(t) ==
  /\ attached
  /\ edits < MaxEdits
  /\ t \in ThreadIdsOf(ymap)
  /\ \E rid \in {getRootComment(ymap, t)} :
       /\ IsResolved(ymap[rid])
       /\ \E match \in {unresolveMatch(ymap[rid])} :
          \E markRestored \in {match # NoMatch /\ schema # "nomark"} :
          \E newDoc \in {IF markRestored THEN AddMark(doc, match.from, match.to, t)
                          ELSE doc} :
            /\ \E after \in {IF newDoc = doc
                               THEN [doc |-> doc, map |-> ymap, batches |-> <<>>]
                               ELSE Dispatch(MarkTr, doc, newDoc, schema, ymap, attached,
                                             initialSyncComplete)} :
                 /\ doc' = after.doc
                 /\ ymap' = MapSet(after.map, rid,
                                   IF markRestored
                                   THEN Merge(ymap[rid], [resolved |-> FALSE])
                                   ELSE Merge(ymap[rid], [resolved |-> FALSE, orphaned |-> TRUE,
                                                          orphanedAt |-> "ts"]))
                 /\ emitted' = after.batches
            /\ last' = Info(IF markRestored THEN "unresolve" ELSE "unresolveDetached",
                            match.from, match.to, 0, t)
            /\ IF newDoc # doc THEN resetSyncStabilityTimer
               ELSE UNCHANGED <<timer, sinceChange>>
  /\ edits' = edits + 1
  /\ afterDispatch
  /\ UNCHANGED <<schema, attached, initialSyncComplete, synced>>

createReply(parent) ==
  [id |-> "r1", threadId |-> parent.threadId, parentId |-> parent.id, content |-> "c",
   createdAt |-> 2, resolved |-> FALSE]

submitReply(t) ==
  LET rid == getRootComment(ymap, t)
  IN  /\ attached
      /\ t \in ThreadIdsOf(ymap)
      /\ "r1" \notin DOMAIN ymap
      /\ ~IsResolved(ymap[rid])
      /\ ymap' = MapSet(ymap, "r1", createReply(ymap[rid]))
      /\ emitted' = <<>>
      /\ last' = Info("reply", 0, 0, 0, t)
      /\ UNCHANGED <<doc, schema, attached, initialSyncComplete, synced, timer, sinceChange,
                     edits, storedMarks>>

(* a collaborator's deletion of a record arrives through the shared map *)
RemoteDelete(id) ==
  /\ edits < MaxEdits
  /\ id \in DOMAIN ymap
  /\ ymap' = MapDelete(ymap, id)
  /\ emitted' = <<>>
  /\ last' = Info("remoteDelete", 0, 0, 0, ymap[id].threadId)
  /\ edits' = edits + 1
  /\ UNCHANGED <<doc, schema, attached, initialSyncComplete, synced, timer, sinceChange,
                 storedMarks>>

------------------------------------------------------------------------------
(* da-comments.js: the count the panel publishes with count-changed          *)

commentCount_countingOrphaned(map) ==
  Cardinality({t \in ThreadIdsOf(map) : ~map[getRootComment(map, t)].resolved})

(* get commentCount: one per thread whose getRootComment is neither resolved *)
(* nor orphaned                                                              *)
commentCount(map) ==
  Cardinality({t \in ThreadIdsOf(map) :
                 /\ ~map[getRootComment(map, t)].resolved
                 /\ ~IsOrphaned(map[getRootComment(map, t)])})

Positions == 0..MaxDocLen

Next ==
  \/ setCommentsMap
  \/ setWsProvider
  \/ checkStability
  \/ SelectionTr
  \/ \E from \in Positions, to \in Positions, slice \in TypedSlices(schema) :
       DocTr(from, to, slice)
  \/ \E from \in Positions, to \in Positions, clip \in PastedSlices(schema) :
       Paste(from, to, clip)
  \/ \E t \in Threads, from \in Positions, to \in Positions : submitNewComment(t, from, to)
  \/ \E t \in Threads, pos \in Positions : submitImageComment(t, pos)
  \/ \E t \in Threads : resolveThread(t)
  \/ \E t \in Threads : unresolveThread(t)
  \/ \E t \in Threads : submitReply(t)
  \/ \E t \in Threads : deleteThread(t)
  \/ \E id \in DOMAIN ymap : RemoteDelete(id)

Spec == Init /\ [][Next]_vars

-----------------------------------------------------------------------------
(* Properties *)

LiveIds(d) == getThreadIdsWithMarks(d, schema)

Reported(batches) == UNION {batches[i] : i \in 1..Len(batches)}

(* the transactions whose last step is a lifecycle pass on the final state *)
PassKinds == {"edit", "paste", "select", "recover", "submit", "submitImage", "resolve"}

(* what the engine does on its own or in reaction to a document edit *)
AutoKinds == {"edit", "paste", "select", "recover", "stable", "rearm", "attach", "synced"}

(* the explicit deletions of records *)
DeleteKinds == {"remoteDelete", "deleteThread"}

(* the first positions of the maximal runs of inline content carrying       *)
(* thread t's mark                                                           *)
RunStarts(d, t) ==
  {i \in 1..Len(d) : d[i].tid = t /\ ~(i > 1 /\ d[i - 1].tid = t)}

NewlyMarked(d, e, t) == {i \in 1..Len(e) : e[i].tid = t /\ (i > Len(d) \/ d[i].tid # t)}

IsInterval(S) == \A i \in S, k \in S : \A j \in i..k : j \in S

(* C1 as stated: after applying a mark, typing, a paste, recovery or         *)
(* unresolveThread, all text carrying a thread's mark is one contiguous      *)
(* range: no text between two characters with the mark is without it         *)
C1_SingleSpan ==
  (\/ last.kind \in {"submit", "paste", "recover", "unresolve"}
   \/ last.kind = "edit" /\ last.tid = None)
    => \A t \in Threads :
         \A i \in 1..Len(doc), k \in 1..Len(doc) :
           (doc[i].k = "text" /\ doc[i].tid = t /\ doc[k].k = "text" /\ doc[k].tid = t)
             => \A j \in i..k : doc[j].k = "text" => doc[j].tid = t

(* C1 amended: applying a mark to a text selection, recovery and             *)
(* unresolveThread put a thread's mark on one contiguous range only, and     *)
(* typing uncommented text never splits a thread's marked text into more     *)
(* runs than it had                                                          *)
C1_OneRangeApplied ==
  [][\A t \in Threads :
       /\ last'.kind \in {"submit", "recover", "unresolve"}
            => IsInterval(NewlyMarked(doc, doc', t))
       /\ (last'.kind = "edit" /\ last'.tid = None)
            => Cardinality(RunStarts(doc', t)) <= Cardinality(RunStarts(doc, t))]_vars

C1_Witness ==
  /\ last.kind = "edit" /\ last.tid = None /\ last.newEnd > last.oldStart
  /\ \E t \in Threads : /\ doc[last.newEnd].tid = t
                        /\ Cardinality(RunStarts(doc, t)) = 1
                        /\ Cardinality({i \in 1..Len(doc) : doc[i].tid = t}) >= 3

Authored(r) == <<r.id, r.threadId, r.parentId, r.content, r.createdAt>>

C3_OrphanedOnce ==
  [][(last'.kind \in PassKinds /\ attached' /\ initialSyncComplete')
       => \A t \in Threads :
            /\ (HasRoot(ymap', t) /\ ~IsResolved(RootOf(ymap', t)) /\ t \notin LiveIds(doc'))
                 => /\ IsOrphaned(RootOf(ymap', t))
                    /\ RootOf(ymap', t).orphanedAt = "ts"
                    /\ ~(HasRoot(ymap, t) /\ IsOrphaned(RootOf(ymap, t)))
                         => t \in Reported(emitted')
            /\ (/\ HasRoot(ymap, t) /\ IsOrphaned(RootOf(ymap, t))
                /\ t \notin LiveIds(doc) /\ t \notin LiveIds(doc') /\ last'.tid # t)
                 => t \notin Reported(emitted')]_vars

C3_Witness ==
  /\ last.kind = "edit" /\ last.oldEnd > last.oldStart
  /\ attached /\ initialSyncComplete
  /\ emitted = <<{"t1"}>>
  /\ HasRoot(ymap, "t1") /\ IsOrphaned(RootOf(ymap, "t1"))
  /\ "t1" \notin LiveIds(doc)

(* C4: with the gate open, after a pass every thread with a root and a mark  *)
(* (on text or on an image) has orphaned = false and orphanedAt = null       *)
C4_Restored ==
  (last.kind \in PassKinds /\ attached /\ initialSyncComplete)
    => \A t \in ThreadIdsOf(ymap) :
         (HasRoot(ymap, t) /\ t \in LiveIds(doc))
           => /\ ~IsOrphaned(RootOf(ymap, t))
              /\ "orphanedAt" \in DOMAIN RootOf(ymap, t) => RootOf(ymap, t).orphanedAt = "null"

C4_Witness ==
  /\ last.kind \in PassKinds /\ attached /\ initialSyncComplete
  /\ emitted = <<>>
  /\ \E t \in ThreadIdsOf(ymap) :
       /\ HasRoot(ymap, t) /\ t \in LiveIds(doc)
       /\ "orphanedAt" \in DOMAIN RootOf(ymap, t)
       /\ RootOf(ymap, t).orphanedAt = "null"

(* C5: while a thread's root is resolved no automatic step flags it          *)
(* orphaned, reports it orphaned, or gives it a mark when it has none        *)
C5_ResolvedLeftAlone ==
  [][\A t \in Threads :
       (HasRoot(ymap, t) /\ IsResolved(RootOf(ymap, t)) /\ last'.kind \in AutoKinds)
         => /\ HasRoot(ymap', t) /\ IsResolved(RootOf(ymap', t))
            /\ ~IsOrphaned(RootOf(ymap, t)) => ~IsOrphaned(RootOf(ymap', t))
            /\ t \notin Reported(emitted')
            /\ (t \notin LiveIds(doc) /\ last'.tid # t) => t \notin LiveIds(doc')]_vars

C5_Witness ==
  /\ last.kind = "stable" /\ attached /\ schema # "nomark"
  /\ HasRoot(ymap, "t1") /\ IsResolved(RootOf(ymap, "t1"))
  /\ "t1" \notin LiveIds(doc)
  /\ findBestMatchPosition(doc, RootOf(ymap, "t1").selectedText,
                           RootOf(ymap, "t1").positionContext) # NoMatch

(* C6: where the schema has the comment mark, a second lifecycle pass on the *)
(* state a pass left writes no record and emits no notification              *)
C6_SecondPassQuiet ==
  schema # "nomark" =>
  LET p1 == buildDecorations(doc, schema, ymap, attached, initialSyncComplete)
      p2 == buildDecorations(doc, schema, p1.map, attached, initialSyncComplete)
  IN  p2.map = p1.map /\ p2.batches = <<>>

(* C7: a document change while the gate waits for stability leaves the wait  *)
(* armed, so that the gate can still open                                    *)
C7_ChangeRearms ==
  [][(synced /\ ~initialSyncComplete /\ timer > 0 /\ last'.kind \in {"edit", "paste"})
       => timer' > 0]_vars

(* C8: after a document-changing transaction no text carries the mark of a   *)
(* thread without a record, and a thread without a record is neither         *)
(* reported orphaned nor given a record                                      *)
C8_GhostsRemoved ==
  [][last'.kind \in {"edit", "paste", "recover", "submit", "submitImage"}
       => /\ \A i \in 1..Len(doc') :
               (doc'[i].k = "text" /\ doc'[i].tid # None)
                 => doc'[i].tid \in validThreadIds(ymap', attached')
          /\ \A t \in Threads :
               (t \notin ThreadIdsOf(ymap) /\ ~(last'.kind \in {"submit", "submitImage"} /\ last'.tid = t))
                 => t \notin ThreadIdsOf(ymap') /\ t \notin Reported(emitted')]_vars

C8_Witness ==
  /\ last.kind = "edit" /\ last.tid = "t1" /\ last.newEnd > last.oldStart
  /\ attached /\ initialSyncComplete
  /\ "t1" \notin ThreadIdsOf(ymap)
  /\ doc[last.newEnd].k = "text" /\ doc[last.newEnd].tid = None

(* C9: after a paste and its corrective transaction nothing in the pasted    *)
(* range carries a comment mark or a comment attribute                       *)
C9_PasteClean ==
  last.kind = "paste"
    => \A i \in (last.oldStart + 1)..last.newEnd : doc[i].tid = None /\ doc[i].attr = None

AdjacentThread(d, s, e, valid) ==
  IF s > 0 /\ d[s].k = "text" /\ d[s].tid \in valid THEN d[s].tid
  ELSE IF e < Len(d) /\ d[e + 1].k = "text" /\ d[e + 1].tid \in valid THEN d[e + 1].tid
  ELSE None

(* C10: after a non-paste step that inserts content, the inserted range      *)
(* carries the mark of the thread (with a record) on the character before    *)
(* or after the insertion in the pre-edit document, and otherwise only the   *)
(* mark the content came with                                                *)
C10_ExtendsOnlyAdjacent ==
  [][(last'.kind = "edit" /\ last'.newEnd > last'.oldStart)
       => LET valid == validThreadIds(ymap, attached)
              adj == AdjacentThread(doc, last'.oldStart, last'.oldEnd, valid)
              own == IF last'.tid \in valid THEN last'.tid ELSE None
          IN  \A i \in (last'.oldStart + 1)..last'.newEnd :
                doc'[i].tid = IF adj # None THEN adj ELSE own]_vars

(* C11: for every span whose text is not only whitespace, also one that      *)
(* crosses a text-node boundary or whose text occurs elsewhere, submitting a *)
(* comment on it applies the mark, and findCommentMarkRange then returns a   *)
(* range that covers the same text as the span.                              *)
C11_MarkRoundTrip ==
  [][(last'.kind \in {"submit", "submitFailed"} /\ schema # "nomark")
       => /\ last'.kind = "submit"
          /\ findCommentMarkRange(doc', schema, last'.tid) # NoRange
          /\ TextBetween(doc', findCommentMarkRange(doc', schema, last'.tid).from,
                         findCommentMarkRange(doc', schema, last'.tid).to, <<>>)
               = TextBetween(doc, last'.oldStart, last'.oldEnd, <<>>)]_vars

-----------------------------------------------------------------------------
(* The exported functions called on their own, on a document with one stored *)
(* thread t1 that has no mark: the inputs are drawn by ApiInit               *)

MaxTextLen == 4

FoxText ==
  <<
    "T", "h", "e", " ", "q", "u", "i", "c", "k", " ",
    "f", "o", "x", " ", "j", "u", "m", "p", "s", ".",
    " ", "T", "h", "e", " ", "q", "u", "i", "c", "k",
    " ", "f", "o", "x", " ", "r", "u", "n", "s", "."
  >>

FoxTarget == <<"q", "u", "i", "c", "k", " ", "f", "o", "x">>

(* a stored context without blockIndex *)
FoxCtx ==
  [isNull |-> FALSE, textBefore |-> <<"T", "h", "e", " ">>,
   textAfter |-> <<" ", "j", "u", "m", "p", "s">>]

TextOf(s) == [i \in 1..Len(s) |-> TextTok(s[i], None)]

Strs(n) == [1..n -> Chars]

ApiDocs ==
  {Para(TextOf(s)) : s \in Strs(MaxTextLen - 1) \cup Strs(MaxTextLen)}
    \cup {Para(TextOf(x)) \o Para(TextOf(y)) :
            x, y \in {<<"a">>, <<"b">>, <<"a", "b">>, <<"b", "a">>}}
    \cup {Para(TextOf(s)) : s \in {<<"a", " ", "a">>, <<" ", "a">>, <<" ", " ">>}}
    \cup {Para(<<TextTok("a", None), ImageTok(None, None), TextTok("b", None)>>)}
    \cup {Para(TextOf(FoxText))}

ApiTexts == {<<"a">>, <<"a", "b">>, <<"a", "a">>, <<" ">>, FoxTarget}

(* index in doc.textContent of the character that follows position p *)
TextIndex(d, p) == Cardinality({i \in 1..p : d[i].k = "text"})

(* the context window of the text from position p to p + n, as text *)
WindowContext(d, p, n) ==
  [isNull |-> FALSE,
   textBefore |-> Slice(TextContent(d), Max({0, TextIndex(d, p) - POSITION_CONTEXT_RADIUS}),
                        TextIndex(d, p)),
   textAfter |-> Slice(TextContent(d), TextIndex(d, p) + n,
                       TextIndex(d, p) + n + POSITION_CONTEXT_RADIUS)]

(* contexts a caller may hand in: none, the one getPositionContext stores    *)
(* for an occurrence, the text window of an occurrence with or without a     *)
(* block index, and contexts taken from another document                     *)
ApiContexts(d, text) ==
  {NullCtx, FoxCtx,
   [isNull |-> FALSE, textBefore |-> <<"b", "b">>, textAfter |-> <<"b", "b">>,
    blockIndex |-> 3]}
    \cup {getPositionContext(d, p, p + Len(text)) : p \in MatchStarts(d, text)}
    \cup {WindowContext(d, p, Len(text)) : p \in MatchStarts(d, text)}
    \cup {Merge(WindowContext(d, p, Len(text)), [blockIndex |-> b]) :
            p \in MatchStarts(d, text), b \in 1..2}

ApiInit ==
  /\ doc \in ApiDocs
  /\ schema = "inclusive"
  /\ \E text \in ApiTexts, resolved \in BOOLEAN, orphaned \in BOOLEAN :
       \E ctx \in ApiContexts(doc, text) :
         ymap = MapSet(EmptyMap, "t1",
                       Merge(Merge(NewComment("t1", text, FALSE, ctx), [resolved |-> resolved]),
                             IF orphaned
                             THEN [orphaned |-> TRUE, orphanedAt |-> "ts"]
                             ELSE EmptyMap))
  /\ attached = TRUE
  /\ initialSyncComplete = TRUE
  /\ synced = TRUE
  /\ timer = -1
  /\ sinceChange = SYNC_STABILITY_DELAY_MS
  /\ emitted = <<>>
  /\ last = Info("init", 0, 0, 0, None)
  /\ edits = 0
  /\ storedMarks = None

(* findBestMatchPosition(state, selectedText, positionContext) on the stored *)
(* text and context of t1                                                    *)
callFindBestMatch ==
  /\ last.kind = "init"
  /\ \E match \in {findBestMatchPosition(doc, ymap["t1"].selectedText,
                                        ymap["t1"].positionContext)} :
       last' = Info("findBestMatch", match.from, match.to, 0, "t1")
  /\ emitted' = <<>>
  /\ UNCHANGED <<doc, schema, ymap, attached, initialSyncComplete, synced, timer,
                 sinceChange, edits, storedMarks>>

(* applyCommentMark(threadId) without the selectedText option: the mark goes *)
(* on the selection from..to; d when it returns false                        *)
applyCommentMarkOnSelection(d, sch, t, from, to) ==
  IF sch = "nomark" \/ from = to \/ isOnlyWhitespace(TextBetween(d, from, to, <<>>)) THEN d
  ELSE AddMark(d, from, to, t)

(* applyCommentMark("t1", options) for the record of a new comment, with the *)
(* selection from..to; withText says whether options carries the stored      *)
(* selectedText and positionContext                                          *)
callApplyCommentMark(from, to, withText) ==
  /\ last.kind = "init"
  /\ ~IsResolved(ymap["t1"]) /\ ~IsOrphaned(ymap["t1"])
  /\ from <= to
  /\ IsInlinePos(doc, from) /\ IsInlinePos(doc, to)
  /\ \E newDoc \in {IF withText
                   THEN applyCommentMark(doc, schema, "t1", ymap["t1"].selectedText,
                                         ymap["t1"].positionContext)
                   ELSE applyCommentMarkOnSelection(doc, schema, "t1", from, to)} :
       IF newDoc = doc
       THEN /\ UNCHANGED <<doc, ymap>>
            /\ emitted' = <<>>
            /\ last' = Info(IF withText THEN "applyMarkTextFailed" ELSE "applyMarkFailed",
                            from, to, 0, "t1")
       ELSE /\ \E st \in {Dispatch(MarkTr, doc, newDoc, schema, ymap, attached,
                                  initialSyncComplete)} :
                 /\ doc' = st.doc
                 /\ ymap' = st.map
                 /\ emitted' = st.batches
            /\ last' = Info(IF withText THEN "applyMarkText" ELSE "applyMark",
                            from, to, 0, "t1")
  /\ edits' = edits + 1
  /\ afterDispatch
  /\ UNCHANGED <<schema, attached, initialSyncComplete, synced, timer, sinceChange>>

ApiPositions == 0..(2 * MaxTextLen)

ApiNext ==
  \/ callFindBestMatch
  \/ \E from \in ApiPositions, to \in ApiPositions, withText \in BOOLEAN :
       callApplyCommentMark(from, to, withText)
  \/ unresolveThread("t1")

ApiSpec == ApiInit /\ [][ApiNext]_vars

-----------------------------------------------------------------------------
(* Properties of the exported functions *)

(* C12: applyCommentMark returns false, dispatches nothing and leaves the    *)
(* document as it is when the selection is empty or its text is only         *)
(* whitespace, and when the selectedText option is only whitespace.          *)
C12_DegenerateRejected ==
  [][/\ (/\ last'.kind \in {"applyMark", "applyMarkFailed"}
         /\ \/ last'.oldStart = last'.oldEnd
            \/ isOnlyWhitespace(TextBetween(doc, last'.oldStart, last'.oldEnd, <<>>)))
          => (last'.kind = "applyMarkFailed" /\ doc' = doc)
     /\ (/\ last'.kind \in {"applyMarkText", "applyMarkTextFailed"}
         /\ isOnlyWhitespace(ymap["t1"].selectedText))
          => (last'.kind = "applyMarkTextFailed" /\ doc' = doc)]_vars

(* C13: after removeCommentMark(t) (the document step of resolveThread) no   *)
(* node carries t's comment mark and no image carries t's attribute, the     *)
(* marks and attributes of the other threads are as before, and the          *)
(* document is untouched when nothing of t was found.                        *)
C13_RemoveClears ==
  [][(last'.kind = "resolve" /\ schema # "nomark")
       => /\ Len(doc') = Len(doc)
          /\ \A i \in 1..Len(doc') :
               /\ doc'[i].tid # last'.tid
               /\ doc'[i].attr # last'.tid
               /\ doc[i].tid # last'.tid => doc'[i].tid = doc[i].tid
               /\ doc[i].attr # last'.tid => doc'[i].attr = doc[i].attr
          /\ ~HasMarkOf(doc, last'.tid) => doc' = doc]_vars

(* the occurrences of text in d: runs of characters inside one text node *)
Occurrences(d, text) ==
  {p \in 0..(Len(d) - Len(text)) :
     \A j \in 1..Len(text) :
       d[p + j].k = "text" /\ d[p + j].ch = text[j] /\ d[p + j].tid = d[p + 1].tid}

(* C14: findBestMatchPosition returns null when the text does not occur in   *)
(* the document, and the occurrence when there is exactly one, whatever the  *)
(* context.                                                                  *)
C14_UniqueMatch ==
  last.kind = "findBestMatch"
    => /\ Occurrences(doc, ymap["t1"].selectedText) = {}
            => (last.oldStart = NoMatch.from /\ last.oldEnd = NoMatch.to)
       /\ Cardinality(Occurrences(doc, ymap["t1"].selectedText)) = 1
            => \A p \in Occurrences(doc, ymap["t1"].selectedText) :
                 last.oldStart = p /\ last.oldEnd = p + Len(ymap["t1"].selectedText)

(* the only occurrence was returned under a context that fits nowhere in the *)
(* document                                                                  *)
C14_Witness ==
  /\ last.kind = "findBestMatch"
  /\ Cardinality(Occurrences(doc, ymap["t1"].selectedText)) = 1
  /\ ~ymap["t1"].positionContext.isNull
  /\ ymap["t1"].positionContext.textBefore = <<"b", "b">>
  /\ ~Includes(TextContent(doc), <<"b", "b">>)
  /\ last.oldStart \in Occurrences(doc, ymap["t1"].selectedText)

(* the stored context window is exactly the text around the occurrence at p *)
WindowFits(d, p, n, ctx) ==
  /\ ~ctx.isNull
  /\ ctx.textBefore = WindowContext(d, p, n).textBefore
  /\ ctx.textAfter = WindowContext(d, p, n).textAfter

(* C15: with exactly two occurrences of the text, one whose surrounding text *)
(* is exactly the stored context window and one whose surrounding text is    *)
(* not, findBestMatchPosition returns the former, whichever comes first and  *)
(* whatever block index the context holds.                                   *)
C15_ContextDisambiguates ==
  (last.kind = "findBestMatch"
     /\ ~isOnlyWhitespace(ymap["t1"].selectedText)
     /\ Cardinality(Occurrences(doc, ymap["t1"].selectedText)) = 2)
    => \A p, q \in Occurrences(doc, ymap["t1"].selectedText) :
         (/\ WindowFits(doc, p, Len(ymap["t1"].selectedText), ymap["t1"].positionContext)
          /\ ~WindowFits(doc, q, Len(ymap["t1"].selectedText), ymap["t1"].positionContext))
           => last.oldStart = p

(* C16: in "The quick fox jumps. The quick fox runs." with the context       *)
(* textBefore "The ", textAfter " jumps", the first "quick fox" scores 100,  *)
(* the second scores 0, and the first is returned.                           *)
C16_FoxScores ==
  (/\ last.kind = "findBestMatch"
   /\ doc = Para(TextOf(FoxText))
   /\ ymap["t1"].selectedText = FoxTarget
   /\ ymap["t1"].positionContext = FoxCtx)
    => /\ Cardinality(Occurrences(doc, FoxTarget)) = 2
       /\ MatchScore(TextContent(doc), doc, Min(Occurrences(doc, FoxTarget)),
                     Len(FoxTarget), FoxCtx) = 100
       /\ MatchScore(TextContent(doc), doc, Max(Occurrences(doc, FoxTarget)),
                     Len(FoxTarget), FoxCtx) = 0
       /\ last.oldStart = Min(Occurrences(doc, FoxTarget))
       /\ last.oldEnd = Min(Occurrences(doc, FoxTarget)) + Len(FoxTarget)

(* C17: when unresolveThread finds the stored text of a resolved thread, the *)
(* thread is anchored once it returns: its mark is on the matched span and   *)
(* its root record has resolved = false and orphaned = false, also when the  *)
(* thread was orphaned before it was resolved.                               *)
C17_UnresolveAnchors ==
  [][last'.kind = "unresolve"
       => /\ \A i \in (last'.oldStart + 1)..last'.oldEnd : doc'[i].tid = last'.tid
          /\ HasRoot(ymap', last'.tid)
          /\ ~IsResolved(RootOf(ymap', last'.tid))
          /\ ~IsOrphaned(RootOf(ymap', last'.tid))]_vars

-----------------------------------------------------------------------------
(* Properties of the editing session, continued *)

(* the thread's record is in the store and the thread is orphaned *)
KeptAsOrphaned(map, t) == HasRoot(map, t) /\ IsOrphaned(RootOf(map, t))

(* automatic recovery has no match for thread t in document d *)
RecoveryFails(d, map, t) ==
  /\ t \notin LiveIds(d)
  /\ HasRoot(map, t)
  /\ ~IsResolved(RootOf(map, t))
  /\ Occurrences(d, RootOf(map, t).selectedText) = {}

(* C19: when applying or recovering a thread's mark fails (at submission, at *)
(* unresolve, in automatic recovery), the thread's record stays in the store *)
(* and the thread ends orphaned.                                             *)
C19_FailureKeepsRecord ==
  [][schema # "nomark"
       => /\ last'.kind \in {"submitFailed", "unresolveDetached"}
               => KeptAsOrphaned(ymap', last'.tid)
          /\ (last'.kind \in {"stable", "recover"} /\ attached /\ ~initialSyncComplete)
               => \A t \in ThreadIdsOf(ymap) :
                    RecoveryFails(doc, ymap, t) => KeptAsOrphaned(ymap', t)]_vars

(* the anchor state of a thread: the orphaned and orphanedAt fields of its   *)
(* root record, an absent field read as false or null                        *)
AnchorState(map, t) ==
  [orphaned |-> IsOrphaned(RootOf(map, t)),
   orphanedAt |-> IF "orphanedAt" \in DOMAIN RootOf(map, t)
                  THEN RootOf(map, t).orphanedAt ELSE "null"]

(* the steps that neither change the document nor resolve, unresolve or      *)
(* delete a thread: selection-only and meta-only transactions, timer         *)
(* expiries without a recovery transaction, attaching the store, the         *)
(* provider's sync, a reply                                                  *)
QuietKinds == {"select", "stable", "rearm", "attach", "synced", "reply", "submitFailed"}

(* C20: a thread's anchor state changes only in a step that changes the      *)
(* document or that resolves, unresolves or deletes a thread; a selection-   *)
(* only transaction, a meta-only transaction or a timer expiry leaves it.    *)
C20_AnchorChangesOnlyByEdit ==
  [][(last'.kind \in QuietKinds /\ schema # "nomark")
       => \A t \in Threads :
            (HasRoot(ymap, t) /\ HasRoot(ymap', t))
              => AnchorState(ymap', t) = AnchorState(ymap, t)]_vars

(* C21: with a schema without the comment mark type every annotation         *)
(* operation is a no-op: applyCommentMark on text fails, removeCommentMark   *)
(* and recovery dispatch nothing, and the lifecycle pass of a transaction    *)
(* changes no record and emits no orphaned notification, image-comment       *)
(* threads included.                                                         *)
C21_NoMarkNoOp ==
  [][schema = "nomark"
       => /\ last'.kind \notin {"submit", "recover", "unresolve"}
          /\ last'.kind = "resolve" => doc' = doc
          /\ last'.kind \in {"select", "edit", "paste", "stable", "rearm"}
               => (ymap' = ymap /\ emitted' = <<>>)]_vars

(* the stored orphaned flag of every non-resolved thread agrees with the     *)
(* document: it is set exactly when the thread has no mark                   *)
FlagsAgree(d, map) ==
  \A t \in ThreadIdsOf(map) :
    (HasRoot(map, t) /\ ~IsResolved(RootOf(map, t)))
      => (IsOrphaned(RootOf(map, t)) <=> t \notin LiveIds(d))

(* C22: under every interleaving of local edits, remote edits and store      *)
(* updates, once the store is attached, the gate has opened and every        *)
(* transaction and store update has been processed, the orphaned flag of     *)
(* each non-resolved thread is true exactly when the document holds no mark  *)
(* for the thread.                                                           *)
C22_Converged ==
  (attached /\ initialSyncComplete /\ schema # "nomark") => FlagsAgree(doc, ymap)

(* the threads the panel shows as resolved, as orphaned: by the record        *)
(* getRootComment names for the thread                                       *)
ResolvedThreads(map) == {t \in ThreadIdsOf(map) : IsResolved(map[getRootComment(map, t)])}

OrphanedThreads(map) == {t \in ThreadIdsOf(map) : IsOrphaned(map[getRootComment(map, t)])}

(* C23: the count the panel publishes equals the number of threads that are  *)
(* neither resolved nor orphaned: a resolved thread and an orphaned thread   *)
(* contribute 0, every other thread 1.                                       *)
C23_CountIsOpenThreads ==
  attached =>
    commentCount(ymap) + Cardinality(ResolvedThreads(ymap) \cup OrphanedThreads(ymap))
      = Cardinality(ThreadIdsOf(ymap))

C23_Witness ==
  /\ attached
  /\ Cardinality(ThreadIdsOf(ymap)) = 2
  /\ commentCount(ymap) = 1
  /\ OrphanedThreads(ymap) \ ResolvedThreads(ymap) # {}

------------------------------------------------------------------------------
(* Store grouping specification: groupCommentsByThread of comment-utils.js   *)
(* applied to stores that also hold null entries and entries without a       *)
(* threadId                                                                  *)

(* the keys of the store in the order forEach visits them *)
StoreIds == <<"c1", "c2", "c3">>

MaxCreatedAt == 3

NullEntry == [isNull |-> TRUE]

(* the entries a store can hold under key id *)
StoreEntries(id) ==
  {NullEntry, [id |-> id, noThreadId |-> TRUE, createdAt |-> 1],
   [id |-> id, threadId |-> "", parentId |-> NullId, createdAt |-> 1, resolved |-> FALSE]}
    \cup {[id |-> id, threadId |-> t, parentId |-> NullId, createdAt |-> c, resolved |-> FALSE] :
            t \in Threads, c \in 1..MaxCreatedAt}

Stores ==
  UNION {[ids -> UNION {StoreEntries(StoreIds[i]) : i \in 1..Len(StoreIds)}] :
           ids \in SUBSET {StoreIds[i] : i \in 1..Len(StoreIds)}}

(* comment && comment.threadId *)
hasThreadId(comment) ==
  /\ "isNull" \notin DOMAIN comment
  /\ "threadId" \in DOMAIN comment
  /\ comment.threadId # ""

(* commentsMap.forEach: the entries in the order of the keys *)
storeValues(map) ==
  Only({[i \in 1..Len(keys) |-> map[keys[i]]] :
          keys \in {SelectSeq(StoreIds, LAMBDA id : id \in DOMAIN map)}})

sortByCreatedAt_asInserted(comments) == comments

(* one insertion of the stable sort: e goes behind every element that does   *)
(* not compare greater                                                       *)
insertByCreatedAt(sorted, e) ==
  SelectSeq(sorted, LAMBDA c : c.createdAt - e.createdAt <= 0)
    \o <<e>> \o SelectSeq(sorted, LAMBDA c : c.createdAt - e.createdAt > 0)

RECURSIVE sortFirst(_, _)
sortFirst(comments, n) ==
  IF n = 0 THEN <<>> ELSE insertByCreatedAt(sortFirst(comments, n - 1), comments[n])

(* comments.sort((a, b) => a.createdAt - b.createdAt) *)
sortByCreatedAt(comments) == sortFirst(comments, Len(comments))

(* groupCommentsByThread: the Map it returns, threadId -> sorted comments *)
threads(map) ==
  [t \in {c.threadId : c \in {map[id] : id \in {k \in DOMAIN map : hasThreadId(map[k])}}} |->
     sortByCreatedAt(SelectSeq(storeValues(map),
                               LAMBDA c : hasThreadId(c) /\ c.threadId = t))]

GroupInit ==
  /\ doc = Para(<<TextTok("a", None), TextTok("a", None)>>)
  /\ schema = "inclusive"
  /\ ymap \in Stores
  /\ (\A id \in DOMAIN ymap : ymap[id] \in StoreEntries(id))
  /\ attached = TRUE
  /\ initialSyncComplete = TRUE
  /\ synced = TRUE
  /\ timer = -1
  /\ sinceChange = SYNC_STABILITY_DELAY_MS
  /\ emitted = <<>>
  /\ last = Info("init", 0, 0, 0, None)
  /\ edits = 0
  /\ storedMarks = None

(* commentsMap.set(id, entry) by this client or a peer *)
storeSet(id, entry) ==
  /\ last.kind = "init"
  /\ edits < MaxEdits
  /\ ymap' = MapSet(ymap, id, entry)
  /\ edits' = edits + 1
  /\ UNCHANGED <<doc, schema, attached, initialSyncComplete, synced, timer, sinceChange,
                 emitted, last, storedMarks>>

(* groupCommentsByThread(commentsMap), the returned Map kept in last.threads *)
callGroupCommentsByThread ==
  /\ last.kind = "init"
  /\ \E result \in {threads(ymap)} :
       last' = Merge(Info("group", 0, 0, 0, None), [threads |-> result])
  /\ UNCHANGED <<doc, schema, ymap, attached, initialSyncComplete, synced, timer,
                 sinceChange, emitted, edits, storedMarks>>

GroupNext ==
  \/ \E i \in 1..Len(StoreIds) : \E entry \in StoreEntries(StoreIds[i]) :
       storeSet(StoreIds[i], entry)
  \/ callGroupCommentsByThread

GroupSpec == GroupInit /\ [][GroupNext]_vars

(* the keys of the valid entries of the store *)
ValidIds(map) ==
  {id \in DOMAIN map : "isNull" \notin DOMAIN map[id] /\ "threadId" \in DOMAIN map[id]
                         /\ map[id].threadId # ""}

(* the places (group, index) where the entry of key id was put *)
PlacesOf(groups, id) ==
  {p \in UNION {{<<t, i>> : i \in 1..Len(groups[t])} : t \in DOMAIN groups} :
     groups[p[1]][p[2]].id = id}

(* C24: groupCommentsByThread puts every entry that is non-null and has a    *)
(* threadId into exactly one group, the one keyed by its threadId, orders    *)
(* each group by ascending createdAt and skips null entries and entries      *)
(* without a threadId: the groups partition the valid comments.              *)
C24_GroupsPartition ==
  last.kind = "group" =>
    /\ \A id \in ValidIds(ymap) :
         /\ Cardinality(PlacesOf(last.threads, id)) = 1
         /\ \A p \in PlacesOf(last.threads, id) :
              p[1] = ymap[id].threadId /\ last.threads[p[1]][p[2]] = ymap[id]
    /\ \A t \in DOMAIN last.threads :
         /\ Len(last.threads[t]) > 0
         /\ \A i \in 1..Len(last.threads[t]) : last.threads[t][i].id \in ValidIds(ymap)
         /\ \A i, j \in 1..Len(last.threads[t]) :
              i < j => last.threads[t][i].createdAt <= last.threads[t][j].createdAt

C24_Witness ==
  /\ last.kind = "group"
  /\ DOMAIN ymap = {"c1", "c2", "c3"}
  /\ "isNull" \in DOMAIN ymap["c1"]
  /\ hasThreadId(ymap["c2"]) /\ hasThreadId(ymap["c3"])
  /\ ymap["c2"].threadId = ymap["c3"].threadId
  /\ ymap["c2"].createdAt > ymap["c3"].createdAt
  /\ Len(last.threads[ymap["c2"].threadId]) = 2

(* the steps of the engine itself while the user runs no comment command:    *)
(* transactions with their lifecycle pass, the attachment of the store, the  *)
(* provider's synced event and a timer expiry that re-arms                   *)
GatedKinds == {"edit", "paste", "select", "attach", "synced", "rearm"}

(* the steps whose transaction always changes the document *)
DocChangingKinds == {"edit", "paste", "submit", "submitImage", "recover"}

OrphanedFlags(map) == [t \in ThreadIdsOf(map) |-> HasRoot(map, t) /\ IsOrphaned(RootOf(map, t))]

(* C25: before the gate has opened the automatic pass orphans no thread,     *)
(* restores none and recovers no mark; the gate opens only on a timer expiry *)
(* after the provider reported synced, when a full quiescence window has     *)
(* elapsed without a document-changing transaction.                          *)
C25_GateDefers ==
  [][/\ (~initialSyncComplete /\ last'.kind \in GatedKinds)
          => /\ \A t \in ThreadIdsOf(ymap) \cap ThreadIdsOf(ymap') :
                  OrphanedFlags(ymap')[t] = OrphanedFlags(ymap)[t]
             /\ emitted' = <<>>
             /\ last'.kind \notin {"edit", "paste"} => doc' = doc
             /\ ~initialSyncComplete'
     /\ (~initialSyncComplete /\ initialSyncComplete')
          => /\ synced
             /\ last'.kind \in {"stable", "recover"}
             /\ last.kind \notin DocChangingKinds
             /\ timer > 0
             /\ sinceChange + timer >= SYNC_STABILITY_DELAY_MS]_vars

C25_Witness ==
  /\ attached /\ synced /\ ~initialSyncComplete
  /\ last.kind = "edit"
  /\ \E t \in ThreadIdsOf(ymap) :
       /\ HasRoot(ymap, t)
       /\ ~IsResolved(RootOf(ymap, t))
       /\ ~IsOrphaned(RootOf(ymap, t))
       /\ t \notin LiveIds(doc)

(* C26: after a document-changing transaction no image carries the           *)
(* annotation attribute of a thread without a record: the maintainer clears  *)
(* it like a ghost text mark.                                                *)
C26_GhostImageCleared ==
  [][(last'.kind \in {"edit", "paste"} /\ schema # "nomark")
       => \A i \in 1..Len(doc') :
            (doc'[i].k = "image" /\ doc'[i].attr # None)
              => doc'[i].attr \in validThreadIds(ymap', attached')]_vars

(* C27: transactions are applied one at a time: while a transaction is being *)
(* applied, the lifecycle pass that runs inside its apply step dispatches no *)
(* further transaction.                                                      *)
C27_NoDispatchInApply ==
  [][\A i \in 1..Len(emitted') : ~storedMarksDispatch(storedMarks, emitted'[i], schema)]_vars

(* the score of the occurrence at position p under the scoring rules, the    *)
(* actual preceding and following text being the flattened document text     *)
(* next to the occurrence                                                    *)
RuleScore(d, p, n, ctx) ==
  LET docText == TextContent(d)
      at == TextIndex(d, p)
      actualBefore == Slice(docText, Max({0, at - Len(ctx.textBefore)}), at)
      actualAfter == Slice(docText, at + n, at + n + Len(ctx.textAfter))
      diff == BlocksBefore(d, p) - ctx.blockIndex
  IN  (IF ctx.textBefore = <<>> THEN 0
       ELSE IF actualBefore = ctx.textBefore THEN 50
       ELSE IF Includes(actualBefore, SliceLast(ctx.textBefore, CONTEXT_TAIL)) THEN 20
       ELSE 0)
      + (IF ctx.textAfter = <<>> THEN 0
         ELSE IF actualAfter = ctx.textAfter THEN 50
         ELSE IF Includes(actualAfter, Slice(ctx.textAfter, 0, CONTEXT_TAIL)) THEN 20
         ELSE 0)
      + (IF "blockIndex" \notin DOMAIN ctx THEN 0
         ELSE IF diff = 0 THEN 30
         ELSE IF diff \in -2..2 THEN 15
         ELSE 0)

NoOverlap(starts, n) == \A p, q \in starts : p < q => p + n <= q

(* C28: when the text occurs several times, findBestMatchPosition returns    *)
(* the earliest occurrence if there is no context, and otherwise the         *)
(* earliest of the occurrences of maximum score under the rules +50/+20 for  *)
(* the text before, +50/+20 for the text after, +30/+15 for the block index. *)
C28_BestScoreWins ==
  (/\ last.kind = "findBestMatch"
   /\ ~isOnlyWhitespace(ymap["t1"].selectedText)
   /\ Cardinality(Occurrences(doc, ymap["t1"].selectedText)) >= 2
   /\ NoOverlap(Occurrences(doc, ymap["t1"].selectedText), Len(ymap["t1"].selectedText)))
    => /\ last.oldStart \in Occurrences(doc, ymap["t1"].selectedText)
       /\ last.oldEnd = last.oldStart + Len(ymap["t1"].selectedText)
       /\ ymap["t1"].positionContext.isNull
            => last.oldStart = Min(Occurrences(doc, ymap["t1"].selectedText))
       /\ ~ymap["t1"].positionContext.isNull
            => \A q \in Occurrences(doc, ymap["t1"].selectedText) :
                 \/ RuleScore(doc, q, Len(ymap["t1"].selectedText),
                              ymap["t1"].positionContext)
                      < RuleScore(doc, last.oldStart, Len(ymap["t1"].selectedText),
                                  ymap["t1"].positionContext)
                 \/ /\ RuleScore(doc, q, Len(ymap["t1"].selectedText),
                                 ymap["t1"].positionContext)
                         = RuleScore(doc, last.oldStart, Len(ymap["t1"].selectedText),
                                     ymap["t1"].positionContext)
                    /\ last.oldStart <= q

(* the occurrences a leftmost-first scan without overlaps takes: an          *)
(* occurrence that no earlier taken occurrence reaches into                  *)
RECURSIVE IsTaken(_, _, _)
IsTaken(occ, n, p) ==
  /\ p \in occ
  /\ \A q \in occ : (q < p /\ p < q + n) => ~IsTaken(occ, n, q)

(* C29: the candidates findBestMatchPosition enumerates are the occurrences  *)
(* of the text taken leftmost first without overlap inside each text node:   *)
(* no two candidates share a character, and the span returned is one of      *)
(* them.                                                                     *)
C29_CandidatesDisjoint ==
  last.kind = "findBestMatch"
    => /\ NoOverlap(MatchStarts(doc, ymap["t1"].selectedText), Len(ymap["t1"].selectedText))
       /\ last.oldStart # NoMatch.from
            => IsTaken(Occurrences(doc, ymap["t1"].selectedText),
                       Len(ymap["t1"].selectedText), last.oldStart)

(* the flattened document text in front of position p, behind position p *)
TextUpTo(d, p) == Slice(TextContent(d), 0, TextIndex(d, p))

TextFrom(d, p) == Slice(TextContent(d), TextIndex(d, p), Len(TextContent(d)))

(* C30: for the range from..to of a new comment getPositionContext returns   *)
(* as textBefore the last min(R, available) characters of the flattened      *)
(* document text in front of from and as textAfter the first                 *)
(* min(R, available) characters behind to, R = POSITION_CONTEXT_RADIUS.      *)
C30_ContextIsSurroundingText ==
  [][last'.kind = "submit"
       => /\ getPositionContext(doc, last'.oldStart, last'.oldEnd).textBefore
               = SliceLast(TextUpTo(doc, last'.oldStart), POSITION_CONTEXT_RADIUS)
          /\ getPositionContext(doc, last'.oldStart, last'.oldEnd).textAfter
               = Slice(TextFrom(doc, last'.oldEnd), 0, POSITION_CONTEXT_RADIUS)]_vars

(* C31: when a thread is deleted its mark is removed from the document and   *)
(* its records are deleted: afterwards the document holds neither a text     *)
(* mark nor an image annotation of the thread and the store no record of it. *)
C31_DeleteLeavesNothing ==
  [][(last'.kind = "deleteThread" /\ schema # "nomark")
       => /\ last'.tid \notin ThreadIdsOf(ymap')
          /\ \A i \in 1..Len(doc') : doc'[i].tid # last'.tid /\ doc'[i].attr # last'.tid]_vars

(* C32: after a document-changing dispatch the maintainer, run again on its  *)
(* own corrective transaction, yields no further steps: the document after   *)
(* the first corrective round is a fixed point of the maintainer, so the     *)
(* append-transaction loop ends after at most one corrective round; and a    *)
(* transaction that inserts nothing over a document without ghost marks      *)
(* gets no corrective transaction at all                                     *)
C32_OneCorrectiveRound ==
  [][/\ (last'.kind \in {"edit", "paste"})
          => maintainCommentMarks(MarkTr, doc', doc', schema, ymap', attached) = doc'
     /\ (/\ last'.kind = "edit"
         /\ last'.newEnd = last'.oldStart
         /\ \A i \in 1..Len(doc) :
              doc[i].tid = None \/ doc[i].tid \in validThreadIds(ymap, attached))
          => doc' = Replace(doc, last'.oldStart, last'.oldEnd, <<>>)]_vars

(* an unmarked character was typed and the corrective transaction marked it *)
C32_Witness ==
  /\ last.kind = "edit"
  /\ last.newEnd > last.oldStart
  /\ last.tid = None
  /\ doc[last.oldStart + 1].tid # None

(* the threads whose root record is not orphaned in map and orphaned in next *)
FlippedThreads(map, next) ==
  {t \in Threads : \E id \in RootIds(map, t) :
                     ~IsOrphaned(map[id]) /\ id \in DOMAIN next /\ IsOrphaned(next[id])}

(* C33: a lifecycle pass emits at most one orphaned notification, only when  *)
(* a thread flipped to orphaned in the pass, and the ids it carries are      *)
(* exactly the threads whose root record changed from not orphaned to        *)
(* orphaned in the pass                                                      *)
C33_NotificationIsFlipped ==
  schema # "nomark" =>
  LET p == buildDecorations(doc, schema, ymap, attached, initialSyncComplete)
  IN  /\ Len(p.batches) <= 1
      /\ Reported(p.batches) = FlippedThreads(ymap, p.map)

(* the text a range covers, or the label of the image it covers *)
CoveredText(d, range) ==
  IF range.isImage THEN ImageLabel ELSE TextBetween(d, range.from, range.to, <<"\n">>)

(* one pass on the current state leaves selectedText and positionContext of  *)
(* a root record alone when its selectedText already is the live text        *)
PassKeepsCurrent ==
  \A t \in LiveIds(doc) :
    HasRoot(ymap, t)
      => \A range \in {findCommentMarkRange(doc, schema, t)}, old \in {RootOf(ymap, t)} :
           (range # NoRange /\ old.selectedText = CoveredText(doc, range))
             => \A p \in {buildDecorations(doc, schema, ymap, attached,
                                            initialSyncComplete)} :
                  \A new \in {RootOf(p.map, t)} :
                    /\ new.selectedText = old.selectedText
                    /\ new.positionContext = old.positionContext

C35_StoredMarksClean ==
  [][\A t \in Reported(emitted') :
       (HasRoot(ymap', t) /\ IsOrphaned(RootOf(ymap', t))) => storedMarks' # t]_vars

AnchorFields == {"selectedText", "positionContext", "orphaned", "orphanedAt"}

(* C36: only root records (parentId = null) hold anchor or resolved state:   *)
(* a reply record has no selectedText, positionContext, orphaned or          *)
(* orphanedAt field and is never resolved                                    *)
C36_OnlyRootsHoldAnchor ==
  \A id \in DOMAIN ymap :
    ymap[id].parentId # NullId
      => /\ AnchorFields \cap DOMAIN ymap[id] = {}
         /\ ~IsResolved(ymap[id])

(* C37: deleting a thread puts its id in no orphaned notification            *)
C37_DeleteNotReported ==
  [][last'.kind = "deleteThread" => last'.tid \notin Reported(emitted')]_vars

(* C38: attaching the comment store after the stability timer has fired (the *)
(* gate is open) does not leave the gate closed: once both the attachment    *)
(* and the expiry have happened the gate is open                             *)
C38_AttachKeepsGateOpen ==
  [][(last'.kind = "attach" /\ initialSyncComplete) => initialSyncComplete']_vars

-----------------------------------------------------------------------------
(* A stored document opened in a new session: the provider delivers the      *)
(* document with its comment marks and the shared map with its records       *)
(* before the comments panel is loaded and hands the map to the plugin       *)

(* the stored documents: thread t1 marks one character *)
SyncedDocs ==
  UNION {{[d EXCEPT ![i].tid = "t1"] : i \in {j \in 1..Len(d) : d[j].k = "text"}} :
           d \in InitDocs}

(* the stored record of the thread whose mark d carries *)
SyncedMap(d) ==
  LET first == Min({i \in 1..Len(d) : d[i].tid = "t1"})
  IN  MapSet(EmptyMap, "t1",
             NewComment("t1", TextBetween(d, first - 1, first, <<>>), FALSE,
                        getPositionContext(d, first - 1, first)))

SyncedInit ==
  /\ doc \in SyncedDocs
  /\ schema \in {"inclusive", "noninclusive"}
  /\ ymap = SyncedMap(doc)
  /\ attached = FALSE
  /\ initialSyncComplete = FALSE
  /\ synced = FALSE
  /\ timer = -1
  /\ sinceChange = SYNC_STABILITY_DELAY_MS
  /\ emitted = <<>>
  /\ last = Info("init", 0, 0, 0, None)
  /\ edits = 0
  /\ storedMarks = None

SyncedSpec == SyncedInit /\ [][Next]_vars

(* the index in the new document of the token at index i of the old one,     *)
(* outside the replaced range                                                *)
MappedIndex(i) == IF i <= last'.oldStart THEN i ELSE i + (last'.newEnd - last'.oldEnd)

(* C39: a document-changing transaction strips no mark of a thread that has  *)
(* a record in the shared store, also while the store is not attached to     *)
(* the plugin: content outside the replaced range keeps its mark             *)
C39_RecordedMarksKept ==
  [][(last'.kind \in {"edit", "paste"})
       => \A i \in 1..Len(doc) :
            (/\ i <= last'.oldStart \/ i > last'.oldEnd
             /\ doc[i].tid # None
             /\ doc[i].tid \in ThreadIdsOf(ymap))
              => doc'[MappedIndex(i)].tid = doc[i].tid]_vars

(* a text mark or an image attribute of thread t exists in document d *)
HasAnchor(d, t) ==
  \E i \in 1..Len(d) : \/ d[i].k = "text" /\ d[i].tid = t
                       \/ d[i].k = "image" /\ d[i].attr = t

(* C40: after a completed lifecycle pass with the gate open, for every       *)
(* thread with a root record that is not resolved, the root's orphaned flag  *)
(* is true if and only if the document the pass ran on has no text mark and  *)
(* no image attribute of the thread                                          *)
C40_FlagIffNoAnchor ==
  [][(last'.kind \in PassKinds /\ attached' /\ initialSyncComplete' /\ schema # "nomark")
       => \A t \in Threads :
            (HasRoot(ymap', t) /\ ~IsResolved(RootOf(ymap', t)))
              => (IsOrphaned(RootOf(ymap', t)) <=> ~HasAnchor(doc', t))]_vars

====
